---- MODULE Spec2Model ----
(***************************************************************************)
(* The realtime subscription hook useSupabaseWebSocket                     *)
(* (src/hooks/use-supabase-websocket.ts) as a state machine.               *)
(*                                                                         *)
(* The hook's React state (status), its refs (channelRef,                  *)
(* reconnectTimeoutRef, reconnectAttemptsRef, callbacksRef), the props the *)
(* current render was called with (enabled, table, filter), the timers the *)
(* hook has armed with setTimeout and the channels it has opened on the    *)
(* backend client are the state.  Every step is one run-to-completion task *)
(* of the single JavaScript thread: an effect run, a call of               *)
(* reconnect()/disconnect(), a backend callback, or a timer firing.        *)
(*                                                                         *)
(* channelName is held fixed: it is a dependency of connect and of the     *)
(* effect exactly as table and filter are, and never read otherwise.  The  *)
(* callbacks are the ones given at construction; onError is one that       *)
(* returns normally except in SpecRaise, where a render may pass one that  *)
(* throws.                                                                 *)
(*                                                                         *)
(* The plain WebSocket hook useWebSocket (src/hooks/use-websocket.ts) is   *)
(* modelled beside it with its own state (the ws... variables,             *)
(* shouldReconnectRef, isManualCloseRef) and its own steps (SpecWS).       *)
(***************************************************************************)
EXTENDS Integers, Sequences, FiniteSets, TLC

\* ---- program constants
maxReconnectAttempts == 10
reconnectInterval == 3000
settleDelay == 100
\* the defaults of useWebSocket's options and the delay of its reconnect()
wsMaxReconnectAttempts == 10
wsReconnectInterval == 3000
wsSettleDelay == 100

\* ---- bounds of the model
MaxTimers == 2      \* timers pending at once
MaxOps == 2         \* disturbances in one run: renders with other props, calls of
                    \* reconnect()/disconnect(), and connect() set-ups that throw
MaxEvents == 3      \* change events the backend delivers in one run
MaxSockets == 2     \* sockets of useWebSocket not yet CLOSED at once
MaxRequests == 2    \* request ids of the table the dashboard shows

NULL == 0
TIMER == "timer"     \* reconnectTimeoutRef.current holds a timer id
NOTIMER == "null"    \* reconnectTimeoutRef.current is null
\* the subscriptions a consumer asks for: (table, filter) with "" the absent
\* filter (filter ? filter : undefined)
Descriptors ==
  {<<"requests", "">>, <<"requests", "owner=42">>, <<"passes", "">>}
StatusSignals == {"SUBSCRIBED", "CHANNEL_ERROR", "TIMED_OUT", "CLOSED"}
EventKinds == {"INSERT", "UPDATE", "DELETE"}
CallbackNames == {"onInsert", "onUpdate", "onDelete", "onError"}
\* the handlers a consumer passes: all, those of TeacherDashboard, those of
\* StudentDashboard, none
HandlerSets ==
  {CallbackNames, {"onInsert", "onUpdate", "onError"}, {"onUpdate", "onError"}, {}}
\* where the try block of connect() throws: nowhere, in .channel() (no
\* channel was created), or later in the chain (.on/.subscribe: the client
\* has created the channel, newChannel was never assigned)
ThrowPoints == {"none", "channel", "subscribe"}

VARIABLES
  phase,                 \* "init" (rendered, effect not yet run) | "mounted" | "unmounted"
  enabled, table, filter,\* the props of the current render
  status,                \* useState status
  statusCalls,           \* the setStatus calls of the step just taken
  channelRef,            \* channelRef.current: a channel id or NULL
  reconnectTimeoutRef,   \* reconnectTimeoutRef.current: TIMER or NOTIMER
  reconnectAttemptsRef,  \* reconnectAttemptsRef.current
  callbacksRef,          \* the callbacks registered in callbacksRef.current
  onErrorThrows,         \* the onError registered in callbacksRef.current throws when called
  render,                \* the number of the render that passed the consumer's current handlers
  callbacksRender,       \* the render whose handlers callbacksRef.current holds
  timers,                \* pending setTimeout timers, in arming order
  channels,              \* channels created on the client and not removed
  released,              \* id of the channel removed last, or NULL
  ops,                   \* disturbances so far
  \* ---- observations of the run (read by the properties only)
  lastOp,                \* the step just taken
  onErrorCalls,          \* onError invocations made by the step just taken
  threw,                 \* the handler called by the step just taken threw
  uncaught,              \* the step just taken let a handler's exception escape
  calledRender,          \* the render whose handler the step just taken called, or 0
  raised,                \* the step just taken ended with an exception leaving
                         \* connect(), disconnect(), reconnect() or the subscribe callback
  consecFail,            \* failure signals in a row: since the last SUBSCRIBED
                         \* and the last operation of the consumer
  armed,                 \* retry timers armed since the last SUBSCRIBED or reconnect()
  stopped,               \* disconnect() ran and neither reconnect() nor an enabled effect since
  delivered,             \* change events in the order the backend delivered them
  dispatched             \* handler invocations in the order they were made

\* ---- the state of useWebSocket (src/hooks/use-websocket.ts); url, protocols
\* and the callbacks are held fixed
VARIABLES
  wsPhase,                 \* "init" | "mounted" | "unmounted"
  wsStatus,                \* useState status
  wsRef,                   \* wsRef.current: a socket id or NULL
  wsSockets,               \* the sockets made by the hook that are not yet CLOSED
  wsReconnectTimeoutRef,   \* reconnectTimeoutRef.current: TIMER or NOTIMER
  wsReconnectAttemptsRef,  \* reconnectAttemptsRef.current
  shouldReconnectRef,      \* shouldReconnectRef.current
  isManualCloseRef,        \* isManualCloseRef.current
  wsTimers,                \* pending setTimeout timers, in arming order
  wsOps,                   \* disturbances so far
  wsLastOp,                \* the step just taken
  wsArmed                  \* the step just taken armed a retry timer

wsVars == <<wsPhase, wsStatus, wsRef, wsSockets, wsReconnectTimeoutRef,
            wsReconnectAttemptsRef, shouldReconnectRef, isManualCloseRef,
            wsTimers, wsOps, wsLastOp, wsArmed>>

\* ---- the lists of TeacherDashboard
\* (src/components/dashboards/teacher-dashboard.tsx)
VARIABLES
  pendingRequests,         \* useState pendingRequests
  allRequests,             \* useState allRequests
  tdFetched,               \* the fetches that have resolved: "pending", "all"
  tdUpdated,               \* the ids of the UPDATE events onUpdate has handled
  tdLast                   \* the request of the UPDATE handled last, as a list of 0 or 1

tdVars == <<pendingRequests, allRequests, tdFetched, tdUpdated, tdLast>>

hookVars == <<status, statusCalls, channelRef, reconnectTimeoutRef, reconnectAttemptsRef,
              timers, channels, released, ops, onErrorCalls, armed, raised>>
propVars == <<phase, enabled, table, filter>>
eventVars == <<delivered, dispatched>>
sbVars == <<propVars, hookVars, callbacksRef, onErrorThrows, render, callbacksRender,
            calledRender, lastOp, threw, uncaught, consecFail, stopped, eventVars>>
vars == <<sbVars, wsVars, tdVars>>

\* The hook's mutable state as one value, so that the functions below can be
\* composed the way the code calls them (reconnect calls disconnect, ...).
Hook ==
  [status |-> status, statusCalls |-> <<>>, channelRef |-> channelRef,
   reconnectTimeoutRef |-> reconnectTimeoutRef,
   reconnectAttemptsRef |-> reconnectAttemptsRef,
   timers |-> timers, channels |-> channels, released |-> released,
   ops |-> ops, onErrorCalls |-> 0, armed |-> armed, raised |-> FALSE]

Commit(h) ==
  \E v \in {h} :
    /\ status' = v.status
    /\ statusCalls' = v.statusCalls
    /\ channelRef' = v.channelRef
    /\ reconnectTimeoutRef' = v.reconnectTimeoutRef
    /\ reconnectAttemptsRef' = v.reconnectAttemptsRef
    /\ timers' = v.timers
    /\ channels' = v.channels
    /\ released' = v.released
    /\ ops' = v.ops
    /\ onErrorCalls' = v.onErrorCalls
    /\ uncaught' = FALSE
    /\ threw' = FALSE
    /\ armed' = v.armed
    /\ raised' = v.raised
    /\ calledRender' = IF v.onErrorCalls > 0 THEN callbacksRender ELSE 0

\* the closure of one render's connect: the props it captured
Closure(en, tb, fl) == [enabled |-> en, table |-> tb, filter |-> fl]
CurrentClosure == Closure(enabled, table, filter)

\* supabase.channel(...) returns a new channel: its id is that of no channel
\* still open and differs from the channel removed last
NewChannelId(h) ==
  CHOOSE i \in 1..(Cardinality(h.channels) + 2) :
    /\ i # h.released
    /\ \A c \in h.channels : c.id # i
    /\ \A j \in 1..(i - 1) : j = h.released \/ \E c \in h.channels : c.id = j

\* Timers carry no id: a timer is `tracked` while reconnectTimeoutRef.current
\* holds its id, and reconnectTimeoutRef is TIMER while it holds the id of
\* some timer (pending or already fired) and NOTIMER when it is null.

\* setTimeout(() => connect(), delay) by a render whose connect has props c
setTimeout(ts, delay, c) ==
  Append(ts, [delay |-> delay, closure |-> c, tracked |-> FALSE])

\* reconnectTimeoutRef.current = setTimeout(...): the timer armed last is the
\* tracked one, the one tracked before is no longer
trackLast(ts) ==
  [k \in 1..Len(ts) |-> [ts[k] EXCEPT !.tracked = (k = Len(ts))]]

\* clearTimeout(reconnectTimeoutRef.current): a no-op once that timer has fired
clearTimeout(ts) == SelectSeq(ts, LAMBDA t : ~t.tracked)

\* supabase.removeChannel(channelRef.current)
removeChannel(chs, id) == {c \in chs : c.id # id}

\* callbacksRef.current.onError?.(...): the call is inside no try of its own,
\* so an exception of the handler leaves the function that made the call
callOnError(h) ==
  IF "onError" \in callbacksRef
  THEN [h EXCEPT !.onErrorCalls = @ + 1, !.raised = onErrorThrows]
  ELSE h

\* setStatus(v): status is the value set last in a task, statusCalls the
\* values set during the task, in order
setStatus(h, v) == [h EXCEPT !.status = v, !.statusCalls = Append(@, v)]

\* if (channelRef.current) { removeChannel(channelRef.current); channelRef.current = null }
releaseHeld(h) ==
  IF h.channelRef # NULL
  THEN [h EXCEPT !.channels = removeChannel(@, h.channelRef),
                 !.released = h.channelRef,
                 !.channelRef = NULL]
  ELSE h

\* connect without the early return on a disabled render
connect_IgnoreEnabled(h, c, thr) ==
  LET h1 == setStatus(releaseHeld(h), "connecting")
      newChannel == [id |-> NewChannelId(h1), table |-> c.table, filter |-> c.filter]
  IN CASE thr = "none" ->
            [h1 EXCEPT !.channels = @ \cup {newChannel},
                       !.channelRef = newChannel.id]
       [] thr = "channel" ->
            callOnError(setStatus([h1 EXCEPT !.ops = @ + 1], "error"))
       [] thr = "subscribe" ->
            callOnError(setStatus([h1 EXCEPT !.ops = @ + 1,
                                             !.channels = @ \cup {newChannel}],
                                  "error"))

\* connect of the render whose props are c; thr is where its try block throws
connect(h, c, thr) ==
  IF ~c.enabled
  THEN setStatus(h, "disconnected")
  ELSE
    LET h1 == setStatus(releaseHeld(h), "connecting")
        newChannel == [id |-> NewChannelId(h1), table |-> c.table, filter |-> c.filter]
    IN CASE thr = "none" ->
              [h1 EXCEPT !.channels = @ \cup {newChannel},
                         !.channelRef = newChannel.id]
         [] thr = "channel" ->
              callOnError(setStatus([h1 EXCEPT !.ops = @ + 1], "error"))
         [] thr = "subscribe" ->
              callOnError(setStatus([h1 EXCEPT !.ops = @ + 1,
                                               !.channels = @ \cup {newChannel}],
                                    "error"))

\* subscribeCallback with the retry guard off by one (<= for <)
subscribeCallback_RetryAtMax(h, c, sig) ==
  CASE sig = "SUBSCRIBED" ->
         [setStatus(h, "connected") EXCEPT !.reconnectAttemptsRef = 0, !.armed = 0]
    [] sig \in {"CHANNEL_ERROR", "TIMED_OUT"} ->
         LET h1 == callOnError(setStatus(h, "error"))
         IN IF h1.raised THEN h1
            ELSE IF h1.reconnectAttemptsRef <= maxReconnectAttempts
            THEN [h1 EXCEPT !.reconnectAttemptsRef = @ + 1,
                            !.armed = @ + 1,
                            !.timers = trackLast(setTimeout(@, reconnectInterval, c)),
                            !.reconnectTimeoutRef = TIMER]
            ELSE h1
    [] sig = "CLOSED" ->
         setStatus(h, "disconnected")

\* subscribeCallback that takes CLOSED for a failure
subscribeCallback_ClosedRetries(h, c, sig) ==
  CASE sig = "SUBSCRIBED" ->
         [setStatus(h, "connected") EXCEPT !.reconnectAttemptsRef = 0, !.armed = 0]
    [] sig \in {"CHANNEL_ERROR", "TIMED_OUT"} ->
         LET h1 == callOnError(setStatus(h, "error"))
         IN IF h1.raised THEN h1
            ELSE IF h1.reconnectAttemptsRef < maxReconnectAttempts
            THEN [h1 EXCEPT !.reconnectAttemptsRef = @ + 1,
                            !.armed = @ + 1,
                            !.timers = trackLast(setTimeout(@, reconnectInterval, c)),
                            !.reconnectTimeoutRef = TIMER]
            ELSE h1
    [] sig = "CLOSED" ->
         LET h1 == setStatus(h, "disconnected")
         IN IF h1.reconnectAttemptsRef < maxReconnectAttempts
            THEN [h1 EXCEPT !.reconnectAttemptsRef = @ + 1,
                            !.armed = @ + 1,
                            !.timers = trackLast(setTimeout(@, reconnectInterval, c)),
                            !.reconnectTimeoutRef = TIMER]
            ELSE h1

\* subscribeCallback whose failure branch counts the attempt and arms no timer
subscribeCallback_NoRetry(h, c, sig) ==
  CASE sig = "SUBSCRIBED" ->
         [setStatus(h, "connected") EXCEPT !.reconnectAttemptsRef = 0, !.armed = 0]
    [] sig \in {"CHANNEL_ERROR", "TIMED_OUT"} ->
         LET h1 == callOnError(setStatus(h, "error"))
         IN IF h1.raised THEN h1
            ELSE IF h1.reconnectAttemptsRef < maxReconnectAttempts
            THEN [h1 EXCEPT !.reconnectAttemptsRef = @ + 1]
            ELSE h1
    [] sig = "CLOSED" ->
         setStatus(h, "disconnected")

\* subscribeCallback whose SUBSCRIBED branch leaves reconnectAttemptsRef alone
subscribeCallback_KeepAttempts(h, c, sig) ==
  CASE sig = "SUBSCRIBED" ->
         setStatus(h, "connected")
    [] sig \in {"CHANNEL_ERROR", "TIMED_OUT"} ->
         LET h1 == callOnError(setStatus(h, "error"))
         IN IF h1.raised THEN h1
            ELSE IF h1.reconnectAttemptsRef < maxReconnectAttempts
            THEN [h1 EXCEPT !.reconnectAttemptsRef = @ + 1,
                            !.armed = @ + 1,
                            !.timers = trackLast(setTimeout(@, reconnectInterval, c)),
                            !.reconnectTimeoutRef = TIMER]
            ELSE h1
    [] sig = "CLOSED" ->
         setStatus(h, "disconnected")

\* the callback given to .subscribe() by the connect whose props are c
subscribeCallback(h, c, sig) ==
  CASE sig = "SUBSCRIBED" ->
         [setStatus(h, "connected") EXCEPT !.reconnectAttemptsRef = 0, !.armed = 0]
    [] sig \in {"CHANNEL_ERROR", "TIMED_OUT"} ->
         LET h1 == callOnError(setStatus(h, "error"))
         IN IF h1.raised THEN h1
            ELSE IF h1.reconnectAttemptsRef < maxReconnectAttempts
            THEN [h1 EXCEPT !.reconnectAttemptsRef = @ + 1,
                            !.armed = @ + 1,
                            !.timers = trackLast(setTimeout(@, reconnectInterval, c)),
                            !.reconnectTimeoutRef = TIMER]
            ELSE h1
    [] sig = "CLOSED" ->
         setStatus(h, "disconnected")

disconnect(h) ==
  LET h1 == IF h.reconnectTimeoutRef # NOTIMER
            THEN [h EXCEPT !.timers = clearTimeout(@),
                           !.reconnectTimeoutRef = NOTIMER]
            ELSE h
  IN setStatus(releaseHeld(h1), "disconnected")

\* reconnect of the render whose connect has props c
reconnect(h, c) ==
  LET h1 == [disconnect(h) EXCEPT !.reconnectAttemptsRef = 0, !.armed = 0]
  IN [h1 EXCEPT !.timers = setTimeout(@, settleDelay, c)]

\* the body of the effect on [enabled, channelName, table, filter]
effect(h, c, thr) ==
  IF c.enabled THEN connect(h, c, thr) ELSE disconnect(h)

\* ---- bounding the run
\* a connect with props c and throw point thr stays inside the bounds
ConnectInBounds(c, thr) ==
  \/ ~c.enabled
  \/ thr = "none"
  \/ ops < MaxOps
\* a disabled connect returns before its try block
ThrowChoices(c) == IF c.enabled THEN ThrowPoints ELSE {"none"}

\* ---- useWebSocket: the functions of the hook

\* the hook's mutable state as one value
Ws ==
  [status |-> wsStatus, wsRef |-> wsRef, sockets |-> wsSockets,
   reconnectTimeoutRef |-> wsReconnectTimeoutRef,
   reconnectAttemptsRef |-> wsReconnectAttemptsRef,
   shouldReconnectRef |-> shouldReconnectRef,
   isManualCloseRef |-> isManualCloseRef,
   timers |-> wsTimers, ops |-> wsOps, armed |-> FALSE]

WsCommit(w) ==
  /\ wsStatus' = w.status
  /\ wsRef' = w.wsRef
  /\ wsSockets' = w.sockets
  /\ wsReconnectTimeoutRef' = w.reconnectTimeoutRef
  /\ wsReconnectAttemptsRef' = w.reconnectAttemptsRef
  /\ shouldReconnectRef' = w.shouldReconnectRef
  /\ isManualCloseRef' = w.isManualCloseRef
  /\ wsTimers' = w.timers
  /\ wsOps' = w.ops
  /\ wsArmed' = w.armed

\* ws.readyState of socket id: a socket no longer among the live ones is CLOSED
readyState(w, id) ==
  IF \E x \in w.sockets : x.id = id
  THEN (CHOOSE x \in w.sockets : x.id = id).readyState
  ELSE "CLOSED"

\* new WebSocket(url): a socket other than every live one and than the one in wsRef
NewSocketId(w) ==
  CHOOSE i \in 1..(Cardinality(w.sockets) + 2) :
    /\ i # w.wsRef
    /\ \A x \in w.sockets : x.id # i
    /\ \A j \in 1..(i - 1) : j = w.wsRef \/ \E x \in w.sockets : x.id = j

\* setTimeout(() => connect(), delay)
wsSetTimeout(ts, delay) == Append(ts, [delay |-> delay, tracked |-> FALSE])

\* connect(); thr: new WebSocket(...) throws
wsConnect(w, thr) ==
  IF w.wsRef # NULL /\ readyState(w, w.wsRef) = "OPEN"
  THEN w
  ELSE IF thr
       THEN [w EXCEPT !.status = "error", !.ops = @ + 1]
       ELSE LET id == NewSocketId(w)
            IN [w EXCEPT !.status = "connecting",
                         !.sockets = @ \cup {[id |-> id, readyState |-> "CONNECTING"]},
                         !.wsRef = id]

\* ws.onopen of socket id
onopen(w, id) ==
  [w EXCEPT !.sockets = (@ \ {[id |-> id, readyState |-> "CONNECTING"]})
                          \cup {[id |-> id, readyState |-> "OPEN"]},
            !.status = "connected",
            !.reconnectAttemptsRef = 0]

\* ws.onerror of socket id: the connection has failed, its close event is due
onerror(w, id) ==
  [w EXCEPT !.sockets = {x \in @ : x.id # id} \cup {[id |-> id, readyState |-> "CLOSING"]},
            !.status = "error"]

\* ws.onclose with the retry guard off by one (<= for <)
onclose_RetryAtMax(w, id) ==
  LET w1 == [w EXCEPT !.sockets = {x \in @ : x.id # id}, !.status = "disconnected"]
  IN IF /\ ~w1.isManualCloseRef
        /\ w1.shouldReconnectRef
        /\ w1.reconnectAttemptsRef <= wsMaxReconnectAttempts
     THEN [w1 EXCEPT !.reconnectAttemptsRef = @ + 1,
                     !.timers = trackLast(wsSetTimeout(@, wsReconnectInterval)),
                     !.reconnectTimeoutRef = TIMER,
                     !.armed = TRUE]
     ELSE IF w1.reconnectAttemptsRef >= wsMaxReconnectAttempts
          THEN [w1 EXCEPT !.status = "error"]
          ELSE w1

\* ws.onclose of socket id
onclose(w, id) ==
  LET w1 == [w EXCEPT !.sockets = {x \in @ : x.id # id}, !.status = "disconnected"]
  IN IF /\ ~w1.isManualCloseRef
        /\ w1.shouldReconnectRef
        /\ w1.reconnectAttemptsRef < wsMaxReconnectAttempts
     THEN [w1 EXCEPT !.reconnectAttemptsRef = @ + 1,
                     !.timers = trackLast(wsSetTimeout(@, wsReconnectInterval)),
                     !.reconnectTimeoutRef = TIMER,
                     !.armed = TRUE]
     ELSE IF w1.reconnectAttemptsRef >= wsMaxReconnectAttempts
          THEN [w1 EXCEPT !.status = "error"]
          ELSE w1

\* wsRef.current.close(): a socket not yet CLOSED starts closing
close(socks, id) ==
  {IF x.id = id THEN [x EXCEPT !.readyState = "CLOSING"] ELSE x : x \in socks}

wsDisconnect(w) ==
  LET w1 == [w EXCEPT !.isManualCloseRef = TRUE, !.shouldReconnectRef = FALSE]
      w2 == IF w1.reconnectTimeoutRef # NOTIMER
            THEN [w1 EXCEPT !.timers = clearTimeout(@), !.reconnectTimeoutRef = NOTIMER]
            ELSE w1
      w3 == IF w2.wsRef # NULL
            THEN [w2 EXCEPT !.sockets = close(@, w2.wsRef), !.wsRef = NULL]
            ELSE w2
  IN [w3 EXCEPT !.status = "disconnected"]

wsReconnect(w) ==
  LET w1 == [w EXCEPT !.isManualCloseRef = FALSE,
                      !.shouldReconnectRef = TRUE,
                      !.reconnectAttemptsRef = 0]
      w2 == wsDisconnect(w1)
  IN [w2 EXCEPT !.timers = wsSetTimeout(@, wsSettleDelay)]

\* a connect that makes a socket, or throws, stays inside the bounds
WsConnectInBounds(w, thr) ==
  \/ w.wsRef # NULL /\ readyState(w, w.wsRef) = "OPEN"
  \/ IF thr THEN w.ops < MaxOps ELSE Cardinality(w.sockets) < MaxSockets

WsInit ==
  /\ wsPhase = "init"
  /\ wsStatus = "disconnected"
  /\ wsRef = NULL
  /\ wsSockets = {}
  /\ wsReconnectTimeoutRef = NOTIMER
  /\ wsReconnectAttemptsRef = 0
  /\ shouldReconnectRef = TRUE
  /\ isManualCloseRef = FALSE
  /\ wsTimers = <<>>
  /\ wsOps = 0
  /\ wsLastOp = "init"
  /\ wsArmed = FALSE

\* ---- TeacherDashboard: the lists and the onUpdate handler

\* the requests of the table: an id and a status
Statuses == {"pending", "approved", "denied"}
RequestIds == 1..MaxRequests
Requests == [id : RequestIds, status : Statuses]

\* the lists a query can return: rows of the statuses asked for, each id once
NoDup(l) == \A i, j \in 1..Len(l) : i # j => l[i].id # l[j].id
Fetched(sts) ==
  {l \in UNION {[1..n -> {r \in Requests : r.status \in sts}] : n \in 0..MaxRequests} :
     NoDup(l)}

\* onUpdate with an allRequests updater that does not drop the earlier entry
onUpdateAll_KeepOld(prev, updatedRequest) ==
  <<updatedRequest>> \o prev

\* onUpdate: setPendingRequests((prev) => prev.filter((req) => req.id !== updatedRequest.id))
onUpdatePending(prev, updatedRequest) ==
  SelectSeq(prev, LAMBDA req : req.id # updatedRequest.id)

\* onUpdate: setAllRequests((prev) => [updatedRequest, ...prev.filter(...)])
onUpdateAll(prev, updatedRequest) ==
  <<updatedRequest>> \o SelectSeq(prev, LAMBDA req : req.id # updatedRequest.id)

TdInit ==
  /\ pendingRequests = <<>>
  /\ allRequests = <<>>
  /\ tdFetched = {}
  /\ tdUpdated = {}
  /\ tdLast = <<>>

Init ==
  /\ phase = "init"
  /\ enabled \in BOOLEAN
  /\ \E d \in Descriptors : table = d[1] /\ filter = d[2]
  /\ status = "disconnected"
  /\ statusCalls = <<>>
  /\ channelRef = NULL
  /\ reconnectTimeoutRef = NOTIMER
  /\ reconnectAttemptsRef = 0
  /\ callbacksRef = CallbackNames
  /\ onErrorThrows = FALSE
  /\ render = 1
  /\ callbacksRender = 1
  /\ calledRender = 0
  /\ timers = <<>>
  /\ channels = {}
  /\ released = NULL
  /\ ops = 0
  /\ lastOp = "init"
  /\ onErrorCalls = 0
  /\ threw = FALSE
  /\ uncaught = FALSE
  /\ raised = FALSE
  /\ consecFail = 0
  /\ armed = 0
  /\ stopped = FALSE
  /\ delivered = <<>>
  /\ dispatched = <<>>
  /\ WsInit
  /\ TdInit

\* first run of the effect
Mount ==
  /\ phase = "init"
  /\ \E thr \in ThrowChoices(CurrentClosure) :
       /\ ConnectInBounds(CurrentClosure, thr)
       /\ Commit(effect(Hook, CurrentClosure, thr))
  /\ phase' = "mounted"
  /\ stopped' = ~enabled
  /\ lastOp' = "mount"
  /\ UNCHANGED <<enabled, table, filter, callbacksRef, onErrorThrows, wsVars, tdVars, render, callbacksRender, consecFail, eventVars>>

\* a render with other props: the cleanup of the old effect, then the new one
SetProps ==
  /\ phase = "mounted"
  /\ ops < MaxOps
  /\ \E en \in BOOLEAN, d \in Descriptors :
       /\ <<en, d[1], d[2]>> # <<enabled, table, filter>>
       /\ \E thr \in ThrowChoices(Closure(en, d[1], d[2])) :
            /\ thr = "none" \/ ops + 1 < MaxOps
            /\ Commit(effect(disconnect([Hook EXCEPT !.ops = @ + 1]),
                              Closure(en, d[1], d[2]), thr))
       /\ enabled' = en
       /\ table' = d[1]
       /\ filter' = d[2]
       /\ stopped' = ~en
       /\ lastOp' = IF en = enabled THEN "params"
                    ELSE IF en THEN "enable" ELSE "disable"
  /\ consecFail' = 0
  /\ UNCHANGED <<phase, callbacksRef, onErrorThrows, wsVars, tdVars, render, callbacksRender, eventVars>>

\* a render with other props that leaves the consumer enabled
SetPropsEnabled == SetProps /\ enabled'

\* a render that passes another onError: the effect on the callbacks stores it
\* in callbacksRef.current
SetOnError ==
  /\ phase = "mounted"
  /\ onErrorThrows' = ~onErrorThrows
  /\ lastOp' = "callbacks"
  /\ calledRender' = 0
  /\ statusCalls' = <<>>
  /\ onErrorCalls' = 0
  /\ raised' = FALSE
  /\ uncaught' = FALSE
  /\ threw' = FALSE
  /\ UNCHANGED <<propVars, status, channelRef, reconnectTimeoutRef, reconnectAttemptsRef,
                 timers, channels, released, ops, armed, callbacksRef, consecFail,
                 stopped, eventVars, wsVars, tdVars, render, callbacksRender>>

\* an effect on the callbacks that keeps what the ref already holds
storeCallbacks_KeepFirst(current, passed) == current

\* the effect on the callbacks:
\* callbacksRef.current = { onInsert, onUpdate, onDelete, onError }
storeCallbacks(current, passed) == passed

\* a render that passes other handlers (enabled, channelName, table and filter
\* as before): only the effect on the callbacks runs
SetCallbacks ==
  /\ phase = "mounted"
  /\ render <= MaxOps
  /\ \E hs \in HandlerSets :
       LET stored == storeCallbacks([names |-> callbacksRef, render |-> callbacksRender],
                                    [names |-> hs, render |-> render + 1])
       IN /\ callbacksRef' = stored.names
          /\ callbacksRender' = stored.render
  /\ render' = render + 1
  /\ lastOp' = "handlers"
  /\ calledRender' = 0
  /\ statusCalls' = <<>>
  /\ onErrorCalls' = 0
  /\ raised' = FALSE
  /\ uncaught' = FALSE
  /\ threw' = FALSE
  /\ UNCHANGED <<propVars, status, channelRef, reconnectTimeoutRef, reconnectAttemptsRef,
                 timers, channels, released, ops, armed, onErrorThrows, consecFail,
                 stopped, eventVars, wsVars, tdVars>>

\* the cleanup of the effect when the consumer unmounts
Unmount ==
  /\ phase = "mounted"
  /\ Commit(disconnect(Hook))
  /\ phase' = "unmounted"
  /\ stopped' = TRUE
  /\ lastOp' = "unmount"
  /\ consecFail' = 0
  /\ UNCHANGED <<enabled, table, filter, callbacksRef, onErrorThrows, wsVars, tdVars, render, callbacksRender, eventVars>>

\* the consumer calls the returned disconnect()
Disconnect ==
  /\ phase = "mounted"
  /\ ops < MaxOps
  /\ Commit(disconnect([Hook EXCEPT !.ops = @ + 1]))
  /\ stopped' = TRUE
  /\ lastOp' = "disconnect"
  /\ consecFail' = 0
  /\ UNCHANGED <<propVars, callbacksRef, onErrorThrows, wsVars, tdVars, render, callbacksRender, eventVars>>

\* the consumer calls the returned reconnect()
Reconnect ==
  /\ phase = "mounted"
  /\ ops < MaxOps
  /\ Len(disconnect(Hook).timers) < MaxTimers
  /\ Commit(reconnect([Hook EXCEPT !.ops = @ + 1], CurrentClosure))
  /\ stopped' = FALSE
  /\ consecFail' = 0
  /\ lastOp' = "reconnect"
  /\ UNCHANGED <<propVars, callbacksRef, onErrorThrows, wsVars, tdVars, render, callbacksRender, eventVars>>

\* the channel record channelRef points to
Held == CHOOSE c \in channels : c.id = channelRef

\* the backend calls the subscribe callback of the held channel
StatusSignal ==
  /\ channelRef # NULL
  /\ \E sig \in StatusSignals :
       /\ (sig \in {"CHANNEL_ERROR", "TIMED_OUT"}
             /\ reconnectAttemptsRef < maxReconnectAttempts)
            => Len(timers) < MaxTimers
       /\ Commit(subscribeCallback(Hook, Closure(TRUE, Held.table, Held.filter), sig))
       /\ consecFail' = CASE sig = "SUBSCRIBED" -> 0
                          [] sig = "CLOSED" -> consecFail
                          [] OTHER -> IF consecFail <= maxReconnectAttempts
                                      THEN consecFail + 1 ELSE consecFail
       /\ lastOp' = sig
  /\ UNCHANGED <<propVars, callbacksRef, onErrorThrows, wsVars, tdVars, render, callbacksRender, stopped, eventVars>>

\* the backend calls the subscribe callback of a channel the hook has removed
\* (by disconnect() or by the connect() that replaced it): the callback is
\* still the one connect() gave to .subscribe() and tests nothing before it
\* acts.  For the runs in which table and filter stay as they are, so that
\* the connect that made the removed channel had the props of this render.
LateSignal ==
  /\ released # NULL
  /\ \E sig \in StatusSignals :
       /\ (sig \in {"CHANNEL_ERROR", "TIMED_OUT"}
             /\ reconnectAttemptsRef < maxReconnectAttempts)
            => Len(timers) < MaxTimers
       /\ Commit(subscribeCallback(Hook, Closure(TRUE, table, filter), sig))
  /\ lastOp' = "late"
  /\ UNCHANGED <<propVars, callbacksRef, onErrorThrows, render, callbacksRender,
                 consecFail, stopped, eventVars, wsVars, tdVars>>

\* timer i is due before every timer armed earlier: timers of one delay fire
\* in arming order, a shorter one may overtake a longer one
CanFire(i) == \A j \in 1..(i - 1) : timers[j].delay > timers[i].delay

RemoveAt(s, i) == SubSeq(s, 1, i - 1) \o SubSeq(s, i + 1, Len(s))

\* a pending timer fires: both the retry timer and reconnect's timer call connect()
TimerFire ==
  /\ \E i \in 1..Len(timers) :
       /\ CanFire(i)
       /\ \E thr \in ThrowChoices(timers[i].closure) :
            /\ ConnectInBounds(timers[i].closure, thr)
            /\ Commit(connect([Hook EXCEPT !.timers = RemoveAt(@, i)],
                              timers[i].closure, thr))
       /\ lastOp' = IF timers[i].delay = reconnectInterval THEN "retry" ELSE "settle"
  /\ UNCHANGED <<propVars, callbacksRef, onErrorThrows, wsVars, tdVars, render, callbacksRender, consecFail, stopped, eventVars>>

\* bindings that call the handler of another kind
handlerOf_Swapped(kind) ==
  CASE kind = "INSERT" -> "onUpdate"
    [] kind = "UPDATE" -> "onDelete"
    [] kind = "DELETE" -> "onInsert"

\* the handler a postgres_changes binding calls for an event of this kind
handlerOf(kind) ==
  CASE kind = "INSERT" -> "onInsert"
    [] kind = "UPDATE" -> "onUpdate"
    [] kind = "DELETE" -> "onDelete"

\* dispatch that queues the newest event ahead of the earlier ones
dispatch_NewestFirst(log, ev, cbs) ==
  IF handlerOf(ev.kind) \in cbs
  THEN <<[n |-> ev.n, handler |-> handlerOf(ev.kind)]>> \o log
  ELSE log

\* the three postgres_changes callbacks: callbacksRef.current.onX?.(payload),
\* called in the backend's task for event ev; log is the handler calls so far
dispatch(log, ev, cbs) ==
  IF handlerOf(ev.kind) \in cbs
  THEN Append(log, [n |-> ev.n, handler |-> handlerOf(ev.kind)])
  ELSE log

\* what a postgres_changes callback does when the handler it called throws:
\* the call is not inside a try, so the exception leaves the callback and
\* nothing else runs
onHandlerThrow(h) == [h EXCEPT !.uncaught = TRUE]

\* the backend delivers a change event on the held channel; `fails` is
\* whether the consumer's handler throws on it
Deliver ==
  /\ channelRef # NULL
  /\ Len(delivered) < MaxEvents
  /\ \E kind \in EventKinds, fails \in BOOLEAN :
       LET ev == [n |-> Len(delivered) + 1, kind |-> kind]
           h0 == [onErrorCalls |-> 0, uncaught |-> FALSE]
           h1 == IF handlerOf(kind) \in callbacksRef /\ fails
                 THEN onHandlerThrow(h0) ELSE h0
       IN /\ delivered' = Append(delivered, ev)
          /\ dispatched' = dispatch(dispatched, ev, callbacksRef)
          /\ onErrorCalls' = h1.onErrorCalls
          /\ uncaught' = h1.uncaught
          /\ threw' = (handlerOf(kind) \in callbacksRef /\ fails)
          /\ statusCalls' = <<>>
          /\ raised' = FALSE
          /\ calledRender' = IF handlerOf(kind) \in callbacksRef THEN callbacksRender ELSE 0
  /\ lastOp' = "deliver"
  /\ UNCHANGED <<propVars, status, channelRef, reconnectTimeoutRef,
                 reconnectAttemptsRef, timers, channels, released, ops, armed,
                 callbacksRef, onErrorThrows, wsVars, tdVars, render, callbacksRender, consecFail, stopped>>

\* ---- useWebSocket: the steps

\* first run of the effect: connect()
WsMount ==
  /\ wsPhase = "init"
  /\ \E thr \in BOOLEAN :
       /\ WsConnectInBounds(Ws, thr)
       /\ WsCommit(wsConnect(Ws, thr))
  /\ wsPhase' = "mounted"
  /\ wsLastOp' = "mount"
  /\ UNCHANGED <<sbVars, tdVars>>

\* a render with another connect (url, protocols or a callback changed): the
\* cleanup of the old effect, then the new one
WsRender ==
  /\ wsPhase = "mounted"
  /\ wsOps < MaxOps
  /\ LET w == wsDisconnect([Ws EXCEPT !.ops = @ + 1])
     IN /\ WsConnectInBounds(w, FALSE)
        /\ WsCommit(wsConnect(w, FALSE))
  /\ wsLastOp' = "render"
  /\ UNCHANGED <<sbVars, tdVars, wsPhase>>

\* the cleanup of the effect when the consumer unmounts
WsUnmount ==
  /\ wsPhase = "mounted"
  /\ WsCommit(wsDisconnect(Ws))
  /\ wsPhase' = "unmounted"
  /\ wsLastOp' = "unmount"
  /\ UNCHANGED <<sbVars, tdVars>>

\* the consumer calls the returned disconnect()
WsDisconnect ==
  /\ wsPhase = "mounted"
  /\ wsOps < MaxOps
  /\ WsCommit(wsDisconnect([Ws EXCEPT !.ops = @ + 1]))
  /\ wsLastOp' = "disconnect"
  /\ UNCHANGED <<sbVars, tdVars, wsPhase>>

\* the consumer calls the returned reconnect()
WsReconnect ==
  /\ wsPhase = "mounted"
  /\ wsOps < MaxOps
  /\ Len(wsDisconnect(Ws).timers) < MaxTimers
  /\ WsCommit(wsReconnect([Ws EXCEPT !.ops = @ + 1]))
  /\ wsLastOp' = "reconnect"
  /\ UNCHANGED <<sbVars, tdVars, wsPhase>>

\* the open event of a connecting socket
WsOpen ==
  /\ \E x \in wsSockets :
       /\ x.readyState = "CONNECTING"
       /\ WsCommit(onopen(Ws, x.id))
  /\ wsLastOp' = "open"
  /\ UNCHANGED <<sbVars, tdVars, wsPhase>>

\* the error event of a socket whose connection fails
WsError ==
  /\ \E x \in wsSockets :
       /\ x.readyState \in {"CONNECTING", "OPEN"}
       /\ WsCommit(onerror(Ws, x.id))
  /\ wsLastOp' = "error"
  /\ UNCHANGED <<sbVars, tdVars, wsPhase>>

\* the close event of a socket: the server or the network closed it, or the
\* close() of the hook or a failure has completed
WsClose ==
  /\ \E x \in wsSockets :
       /\ (~isManualCloseRef /\ shouldReconnectRef
             /\ wsReconnectAttemptsRef < wsMaxReconnectAttempts)
            => Len(wsTimers) < MaxTimers
       /\ WsCommit(onclose(Ws, x.id))
       /\ wsLastOp' = IF x.id = wsRef /\ x.readyState # "CLOSING"
                      THEN "closeHeld" ELSE "close"
  /\ UNCHANGED <<sbVars, tdVars, wsPhase>>

WsCanFire(i) == \A j \in 1..(i - 1) : wsTimers[j].delay > wsTimers[i].delay

\* a pending timer fires: both the retry timer and reconnect's timer call connect()
WsTimerFire ==
  /\ \E i \in 1..Len(wsTimers) :
       /\ WsCanFire(i)
       /\ \E thr \in BOOLEAN :
            LET w == [Ws EXCEPT !.timers = RemoveAt(@, i)]
            IN /\ WsConnectInBounds(w, thr)
               /\ WsCommit(wsConnect(w, thr))
       /\ wsLastOp' = IF wsTimers[i].delay = wsReconnectInterval THEN "retry" ELSE "settle"
  /\ UNCHANGED <<sbVars, tdVars, wsPhase>>

\* ---- TeacherDashboard: the steps

\* fetchRequests() resolves: setPendingRequests(data || [])
FetchRequests ==
  /\ "pending" \notin tdFetched
  /\ tdUpdated = {}
  /\ pendingRequests' \in Fetched({"pending"})
  /\ tdFetched' = tdFetched \cup {"pending"}
  /\ UNCHANGED <<sbVars, wsVars, allRequests, tdUpdated, tdLast>>

\* fetchAllRequests() resolves: setAllRequests(data || [])
FetchAllRequests ==
  /\ "all" \notin tdFetched
  /\ tdUpdated = {}
  /\ allRequests' \in Fetched({"approved", "denied"})
  /\ tdFetched' = tdFetched \cup {"all"}
  /\ UNCHANGED <<sbVars, wsVars, pendingRequests, tdUpdated, tdLast>>

\* the channel delivers an UPDATE event to onUpdate, both lists fetched
TdUpdate ==
  /\ tdFetched = {"pending", "all"}
  /\ \E updatedRequest \in Requests :
       /\ pendingRequests' = onUpdatePending(pendingRequests, updatedRequest)
       /\ allRequests' = onUpdateAll(allRequests, updatedRequest)
       /\ tdUpdated' = tdUpdated \cup {updatedRequest.id}
       /\ tdLast' = <<updatedRequest>>
  /\ UNCHANGED <<sbVars, wsVars, tdFetched>>

Next ==
  \/ Mount
  \/ SetProps
  \/ Unmount
  \/ Disconnect
  \/ Reconnect
  \/ StatusSignal
  \/ TimerFire

Spec == Init /\ [][Next]_vars

\* Event delivery.  The postgres_changes callbacks read callbacksRef only and
\* write nothing of the hook; the steps that bring a channel up and the
\* backend's signals are the steps they interleave with.
NextDelivery ==
  \/ Mount
  \/ StatusSignal
  \/ Deliver

SpecDelivery == Init /\ [][NextDelivery]_vars

\* Recovery.  The runs in which the consumer never calls disconnect(), is
\* never disabled and never unmounts; a timer that was armed and not cleared
\* fires (the event loop runs it once its delay has passed).
NextLive ==
  \/ Mount
  \/ SetPropsEnabled
  \/ Reconnect
  \/ StatusSignal
  \/ TimerFire

SpecLive == Init /\ [][NextLive]_vars /\ WF_vars(TimerFire)

\* Handlers that throw.  The runs in which the consumer's onError may be one
\* that throws when it is called, seen from the callers of connect(),
\* disconnect() and reconnect(): the effect, the consumer and the timers.
NextRaise ==
  \/ Mount
  \/ SetOnError
  \/ SetProps
  \/ Unmount
  \/ Disconnect
  \/ Reconnect
  \/ TimerFire

SpecRaise == Init /\ [][NextRaise]_vars

\* Handlers that change.  The runs in which the consumer re-renders with
\* other handlers while events and signals come in.
NextHandlers ==
  \/ Mount
  \/ SetCallbacks
  \/ StatusSignal
  \/ Deliver

SpecHandlers == Init /\ [][NextHandlers]_vars

\* Late signals.  The runs, with the props of the mount kept, in which the
\* backend also reports on channels the hook has already removed.
NextLate ==
  \/ Mount
  \/ Disconnect
  \/ Reconnect
  \/ StatusSignal
  \/ LateSignal
  \/ TimerFire

SpecLate == Init /\ [][NextLate]_vars

\* The dashboard's lists: the two fetches of the mount, then UPDATE events.
NextTeacher ==
  \/ FetchRequests
  \/ FetchAllRequests
  \/ TdUpdate

SpecTeacher == Init /\ [][NextTeacher]_vars

NextWS ==
  \/ WsMount
  \/ WsRender
  \/ WsUnmount
  \/ WsDisconnect
  \/ WsReconnect
  \/ WsOpen
  \/ WsError
  \/ WsClose
  \/ WsTimerFire

SpecWS == Init /\ [][NextWS]_vars

\* ---- what the properties read

\* the pending timers armed by the subscribe callback / by reconnect()
RetryTimers == {k \in 1..Len(timers) : timers[k].delay = reconnectInterval}
SettleTimers == {k \in 1..Len(timers) : timers[k].delay = settleDelay}

\* the status changes of the state machine: a -> b
AllowedChange(a, b) ==
  \/ a = b
  \/ b = "connecting"
  \/ a = "connecting" /\ b = "connected"
  \/ a \in {"connecting", "connected"} /\ b = "error"
  \/ a \in {"connecting", "connected", "error"} /\ b = "disconnected"

\* C1: every change of status - each setStatus call of every step, taken in
\* order from the status before the step - is disconnected->connecting,
\* connecting->connected, connecting|connected->error,
\* connecting|connected|error->disconnected, or any->connecting.
C1_StatusFollowsStateMachine ==
  [][\A k \in 1..Len(statusCalls') :
       AllowedChange(IF k = 1 THEN status ELSE statusCalls'[k - 1],
                     statusCalls'[k])]_vars

\* C2: at most one channel opened by the hook is unreleased, and it is the
\* one the hook holds in channelRef.
C2_AtMostOneHandle ==
  /\ Cardinality(channels) <= 1
  /\ \A c \in channels : c.id = channelRef

\* C3: after maxReconnectAttempts consecutive failure signals (no SUBSCRIBED
\* and no operation of the consumer in between) no retry timer is pending and
\* status is error.
C3_ExhaustedStaysError ==
  consecFail >= maxReconnectAttempts => (RetryTimers = {} /\ status = "error")

\* C4: reconnectAttemptsRef stays within 0..maxReconnectAttempts, and no more
\* than maxReconnectAttempts retry timers are armed between two resets
\* (SUBSCRIBED or reconnect()).
C4_AttemptsBounded ==
  /\ reconnectAttemptsRef \in 0..maxReconnectAttempts
  /\ armed <= maxReconnectAttempts

\* C4 witness: the failure after the tenth retry has come in (the eleventh in
\* a row); the counter is at its maximum and ten timers were armed.
C4_Witness ==
  /\ lastOp = "TIMED_OUT"
  /\ consecFail = maxReconnectAttempts + 1
  /\ reconnectAttemptsRef = maxReconnectAttempts
  /\ armed = maxReconnectAttempts

\* C5: between a disconnect() and the next reconnect() or enabling effect no
\* retry timer calls connect().
C5_NoRetryAfterDisconnect ==
  stopped => lastOp # "retry"


\* C6: when reconnect() returns, no retry timer is pending, no channel is held
\* and reconnectAttemptsRef is 0; and the connect() it deferred runs with
\* reconnectAttemptsRef still 0.
C6_ReconnectIsCleanRestart ==
  /\ lastOp = "reconnect" =>
       (RetryTimers = {} /\ channelRef = NULL /\ reconnectAttemptsRef = 0)
  /\ lastOp = "settle" => reconnectAttemptsRef = 0

\* C7: when a handler throws on an event, the callback catches the exception
\* and calls onError with it.
C7_HandlerExceptionCaught ==
  threw => (~uncaught /\ onErrorCalls = 1)

\* the handler calls a dispatch of every delivered event, in delivery order,
\* makes with the callbacks cbs registered
InOrder(evs, cbs) ==
  LET due == SelectSeq(evs, LAMBDA e : handlerOf(e.kind) \in cbs)
  IN [k \in 1..Len(due) |-> [n |-> due[k].n, handler |-> handlerOf(due[k].kind)]]

\* C8: the handler invocations are exactly the delivered events, each once, in
\* the order of delivery, each to the handler of its kind.
C8_DispatchedInDeliveryOrder ==
  dispatched = InOrder(delivered, callbacksRef)

\* C8 witness: E1, E2, E3 of three kinds were delivered on a held channel and
\* all three were dispatched.
C8_Witness ==
  /\ lastOp = "deliver"
  /\ Len(delivered) = 3
  /\ delivered[1].kind = "INSERT"
  /\ delivered[2].kind = "UPDATE"
  /\ delivered[3].kind = "DELETE"
  /\ Len(dispatched) = 3

\* C9: while the consumer is mounted and enabled, the channel the hook holds
\* is subscribed with the table and filter of the current render - never
\* with those of an earlier one.
C9_HeldChannelHasCurrentParams ==
  (phase = "mounted" /\ enabled /\ channelRef # NULL) =>
    \A c \in channels : c.id = channelRef => (c.table = table /\ c.filter = filter)

\* C10: a render that turns enabled off while status is connected leaves no
\* channel held, no retry timer pending and status disconnected; a render that
\* turns it on again leaves the hook connecting on a channel other than the
\* released one.
C10_DisableReleasesEnableRestarts ==
  [][/\ (phase = "mounted" /\ status = "connected" /\ enabled /\ ~enabled') =>
          /\ channelRef' = NULL
          /\ \A k \in 1..Len(timers') : timers'[k].delay # reconnectInterval
          /\ status' = "disconnected"
     /\ (phase = "mounted" /\ ~enabled /\ enabled' /\ status' = "connecting") =>
          (channelRef' # NULL /\ channelRef' # released')]_vars

\* C11: right after a teardown (the unmount, or the render that turns enabled
\* off) the hook holds no channel, no channel it opened is left unreleased and
\* no timer of any kind is pending; and while the consumer stays torn down no
\* channel is open.
C11_TeardownReleasesEverything ==
  /\ lastOp \in {"unmount", "disable"} =>
       (channelRef = NULL /\ channels = {} /\ timers = <<>>)
  /\ (phase = "unmounted" \/ ~enabled) => channels = {}

\* C12: at most one retry timer is pending.
C12_RetriesSingleFlight ==
  Cardinality(RetryTimers) <= 1

\* C13: a connect() that runs while the hook holds a channel and status is
\* connected changes nothing: status, reconnectAttemptsRef, the held channel
\* and the channels open on the backend stay as they are and no timer is armed.
C13_ConnectWithLiveHandleIsNoOp ==
  [][(lastOp' \in {"retry", "settle"} /\ channelRef # NULL /\ status = "connected") =>
       /\ status' = status
       /\ reconnectAttemptsRef' = reconnectAttemptsRef
       /\ channelRef' = channelRef
       /\ channels' = channels
       /\ Len(timers') <= Len(timers)]_vars

\* C14: a CHANNEL_ERROR or TIMED_OUT that comes while status is connected and
\* reconnectAttemptsRef is 0 sets status to error, calls onError once, raises
\* reconnectAttemptsRef to 1 and arms one retry timer of reconnectInterval for
\* the subscription that failed; a retry timer that fires starts a new
\* subscribe (status connecting, on a channel other than the one held
\* before); and a SUBSCRIBED sets status to connected and
\* reconnectAttemptsRef to 0.
C14_TransientFailureRecovers ==
  [][/\ (lastOp' \in {"CHANNEL_ERROR", "TIMED_OUT"}
           /\ status = "connected" /\ reconnectAttemptsRef = 0) =>
          /\ status' = "error"
          /\ onErrorCalls' = 1
          /\ reconnectAttemptsRef' = 1
          /\ Len(timers') = Len(timers) + 1
          /\ timers'[Len(timers')] =
               [delay |-> reconnectInterval,
                closure |-> Closure(TRUE, Held.table, Held.filter),
                tracked |-> TRUE]
     /\ lastOp' = "retry" =>
          /\ statusCalls'[1] = "connecting"
          /\ status' = "connecting" =>
               /\ channelRef' # NULL
               /\ channelRef' # channelRef
               /\ \E c \in channels' : c.id = channelRef'
     /\ lastOp' = "SUBSCRIBED" =>
          (status' = "connected" /\ reconnectAttemptsRef' = 0)]_vars

\* C14 witness: with no operation of the consumer and no throw in between, the
\* hook is connected on its second channel: the first one failed, the retry
\* timer subscribed again and the backend confirmed.
C14_Witness ==
  /\ phase = "mounted"
  /\ ops = 0
  /\ lastOp = "SUBSCRIBED"
  /\ channelRef = 2
  /\ released = 1
  /\ status = "connected"
  /\ reconnectAttemptsRef = 0

\* the step just taken was a failure signal that came with
\* reconnectAttemptsRef below maxReconnectAttempts
FailedBelowMax ==
  /\ lastOp \in {"CHANNEL_ERROR", "TIMED_OUT"}
  /\ reconnectAttemptsRef < maxReconnectAttempts \/ RetryTimers # {}

\* the step just taken started a subscribe: it called setStatus("connecting")
SubscribeAttempted ==
  \E k \in 1..Len(statusCalls) : statusCalls[k] = "connecting"

\* C15: in the runs without disconnect(), disable and unmount and with timers
\* that fire, a failure signal that comes with reconnectAttemptsRef below
\* maxReconnectAttempts is followed by a new subscribe attempt; and a
\* SUBSCRIBED leaves status connected.
C15_FailureLeadsToRetry ==
  /\ FailedBelowMax ~> SubscribeAttempted
  /\ [](lastOp = "SUBSCRIBED" => status = "connected")

\* C15 witness: the retry timer armed by a failure has fired and its connect()
\* has subscribed again, with no operation of the consumer in between.
C15_Witness ==
  /\ lastOp = "retry"
  /\ ops = 0
  /\ status = "connecting"
  /\ reconnectAttemptsRef >= 1
  /\ channelRef # NULL

C17_DisconnectReleasesAndIsIdempotent ==
  /\ lastOp \in {"disconnect", "unmount"} =>
       (channelRef = NULL /\ RetryTimers = {} /\ status = "disconnected")
  /\ LET once == disconnect(Hook)
         twice == disconnect(once)
     IN /\ once.channelRef = NULL
        /\ [twice EXCEPT !.statusCalls = <<>>] = [once EXCEPT !.statusCalls = <<>>]

\* C18: when reconnect() of useWebSocket has returned, isManualCloseRef is
\* false and shouldReconnectRef is true, so that a close of the socket it
\* opens is followed by a retry.
C18_ReconnectClearsManualStop ==
  wsLastOp = "reconnect" => (~isManualCloseRef /\ shouldReconnectRef)

\* the setStatus calls of a task in which the try block of connect() threw:
\* "connecting" and, from the catch, "error" right after it
ThrewInSetup(calls) ==
  \E k \in 1..(Len(calls) - 1) : calls[k] = "connecting" /\ calls[k + 1] = "error"

\* C19: a step in which the set-up of connect() throws while
\* reconnectAttemptsRef is below maxReconnectAttempts leaves status error, has
\* called onError, has raised reconnectAttemptsRef by one and has armed a
\* retry timer that reconnectTimeoutRef holds.
C19_SetupFailureTakesRetryPath ==
  [][(ThrewInSetup(statusCalls') /\ reconnectAttemptsRef < maxReconnectAttempts) =>
       /\ status' = "error"
       /\ onErrorCalls' = 1
       /\ reconnectAttemptsRef' = reconnectAttemptsRef + 1
       /\ \E k \in 1..Len(timers') :
            timers'[k].tracked /\ timers'[k].delay = reconnectInterval]_vars

\* C20: no run of the effect or of its cleanup, no call of disconnect() or
\* reconnect() and no connect() run by a timer ends with an exception leaving
\* it, whatever the try block of connect() and the onError handler do.
C20_NoExceptionToCaller ==
  lastOp \in {"mount", "params", "enable", "disable", "unmount",
              "disconnect", "reconnect", "retry", "settle"} => ~raised

\* C21: the delivery of an event calls the handler of its kind - onInsert for
\* INSERT, onUpdate for UPDATE, onDelete for DELETE - once and no other, or
\* none when that handler is not registered; it calls no onError, and leaves
\* status, reconnectAttemptsRef, the held channel and the timers as they were.
C21_DispatchedToMatchingHandler ==
  [][lastOp' = "deliver" =>
       LET ev == delivered'[Len(delivered')]
           want == CASE ev.kind = "INSERT" -> "onInsert"
                     [] ev.kind = "UPDATE" -> "onUpdate"
                     [] ev.kind = "DELETE" -> "onDelete"
       IN /\ dispatched' = IF want \in callbacksRef
                           THEN Append(dispatched, [n |-> ev.n, handler |-> want])
                           ELSE dispatched
          /\ onErrorCalls' = 0
          /\ want \notin callbacksRef => (~uncaught' /\ calledRender' = 0)
          /\ UNCHANGED <<status, reconnectAttemptsRef, channelRef, channels, timers>>]_vars

\* C21 witness: an UPDATE went to onUpdate and a DELETE that followed was
\* dropped, no onDelete being registered.
C21_Witness ==
  /\ lastOp = "deliver"
  /\ Len(delivered) = 2
  /\ delivered[1].kind = "UPDATE"
  /\ delivered[2].kind = "DELETE"
  /\ "onDelete" \notin callbacksRef
  /\ dispatched = <<[n |-> 1, handler |-> "onUpdate"]>>

\* C29: a render that only passes other handlers leaves status,
\* reconnectAttemptsRef, the held channel, the channels on the backend and the
\* timers as they were; and every handler a later step calls is one of the
\* render the consumer made last.
C29_HandlerReplacementIsTransparent ==
  [][/\ lastOp' = "handlers" =>
          UNCHANGED <<status, reconnectAttemptsRef, channelRef, channels, released,
                      timers, reconnectTimeoutRef>>
     /\ calledRender' # 0 => calledRender' = render']_vars

\* C29 witness: after two replacements an event was delivered on the channel
\* subscribed at mount and went to a handler of the third render.
C29_Witness ==
  /\ lastOp = "deliver"
  /\ render = 3
  /\ calledRender = 3
  /\ channelRef = 1
  /\ released = NULL

\* the sockets of useWebSocket that are connecting or open: made by the hook,
\* not closed by the other side and never given a close() by the hook
LiveSockets == {x \in wsSockets : x.readyState \in {"CONNECTING", "OPEN"}}

\* C22: in useWebSocket at most one socket is connecting or open at a time.
C22_AtMostOneLiveSocket ==
  Cardinality(LiveSockets) <= 1

\* C23: in useWebSocket, while isManualCloseRef is false and
\* shouldReconnectRef is true, the close event of a socket that comes with
\* reconnectAttemptsRef below the maximum raises it by one, leaves status
\* disconnected and arms one timer of reconnectInterval that
\* reconnectTimeoutRef holds; one that comes with it at the maximum arms no
\* timer, leaves it as it is and leaves status error; and an open event sets
\* reconnectAttemptsRef to 0.
C23_CloseRetriesUpToMax ==
  [][/\ (wsLastOp' \in {"close", "closeHeld"} /\ ~isManualCloseRef /\ shouldReconnectRef) =>
          IF wsReconnectAttemptsRef < wsMaxReconnectAttempts
          THEN /\ wsReconnectAttemptsRef' = wsReconnectAttemptsRef + 1
               /\ Len(wsTimers') = Len(wsTimers) + 1
               /\ wsTimers'[Len(wsTimers')] = [delay |-> wsReconnectInterval, tracked |-> TRUE]
               /\ wsReconnectTimeoutRef' = TIMER
               /\ wsStatus' = "disconnected"
          ELSE /\ wsReconnectAttemptsRef' = wsReconnectAttemptsRef
               /\ wsTimers' = wsTimers
               /\ wsStatus' = "error"
     /\ wsLastOp' = "open" => (wsReconnectAttemptsRef' = 0 /\ wsStatus' = "connected")]_vars

\* C23 witness: the socket made by the last retry has closed with
\* reconnectAttemptsRef at the maximum: no timer, status error.
C23_Witness ==
  /\ wsLastOp = "closeHeld"
  /\ ~isManualCloseRef
  /\ shouldReconnectRef
  /\ wsReconnectAttemptsRef = wsMaxReconnectAttempts
  /\ wsTimers = <<>>
  /\ wsStatus = "error"

\* C24: a status signal delivered for a channel the hook has removed changes
\* neither status nor reconnectAttemptsRef nor the timers; and whenever a
\* step leaves status connected the hook holds a channel.
C24_LateSignalIgnored ==
  [][/\ lastOp' = "late" => UNCHANGED <<status, reconnectAttemptsRef, timers>>
     /\ status' = "connected" => channelRef' # NULL]_vars

\* C25: while status is connected no retry timer is pending.
C25_ConnectedHasNoRetryPending ==
  status = "connected" => RetryTimers = {}

\* C26: a timer of reconnect() that fires after the consumer's disconnect()
\* - the consumer mounted and enabled, with no reconnect() in between -
\* leaves the hook disconnected with no channel held and none open.
C26_DisconnectBeatsReconnect ==
  (phase = "mounted" /\ enabled /\ stopped /\ lastOp = "settle") =>
    (status = "disconnected" /\ channelRef = NULL /\ channels = {})

\* C27: a CLOSED signal sets status to disconnected and changes nothing else:
\* the timers (none armed, none cleared), reconnectTimeoutRef,
\* reconnectAttemptsRef, the held channel and the channels on the backend
\* stay as they were, and onError is not called.
C27_ClosedChangesOnlyStatus ==
  [][lastOp' = "CLOSED" =>
       /\ status' = "disconnected"
       /\ statusCalls' = <<"disconnected">>
       /\ onErrorCalls' = 0
       /\ UNCHANGED <<timers, reconnectTimeoutRef, reconnectAttemptsRef,
                      channelRef, channels, released>>]_vars

\* C27 witness: CLOSED came for the held channel while a retry timer was
\* pending; the timer is still pending, the channel still held.
C27_Witness ==
  /\ lastOp = "CLOSED"
  /\ status = "disconnected"
  /\ channelRef # NULL
  /\ reconnectAttemptsRef = 1
  /\ Cardinality(RetryTimers) = 1
  /\ reconnectTimeoutRef = TIMER

\* C28: in useWebSocket, while the manual-stop flag set by disconnect() is on
\* and status is disconnected, the close event of a socket leaves status
\* disconnected and arms no retry timer.
C28_StaysDisconnectedAfterDisconnect ==
  [][(wsLastOp' \in {"close", "closeHeld"}
        /\ isManualCloseRef /\ wsStatus = "disconnected") =>
       (wsStatus' = "disconnected" /\ ~wsArmed' /\ wsTimers' = wsTimers)]_vars

\* C30: in TeacherDashboard, from fetched lists and through any sequence of
\* UPDATE events, allRequests holds each request id at most once, its first
\* entry is the request of the UPDATE handled last, and no id of a handled
\* UPDATE is in pendingRequests.
C30_HistoryDeduplicated ==
  /\ NoDup(allRequests)
  /\ tdLast # <<>> => (allRequests # <<>> /\ allRequests[1] = tdLast[1])
  /\ \A i \in 1..Len(pendingRequests) : pendingRequests[i].id \notin tdUpdated

\* C30 witness: request 1 was fetched as pending and request 2 as approved;
\* both were updated, request 2 first and request 1, approved, last.
C30_Witness ==
  /\ tdUpdated = {1, 2}
  /\ pendingRequests = <<>>
  /\ tdLast = <<[id |-> 1, status |-> "approved"]>>
  /\ Len(allRequests) = 2
  /\ allRequests[1].id = 1
  /\ allRequests[2].id = 2

====
